---------------------------- MODULE Spec2Model ----------------------------
(***************************************************************************)
(* A model of three pieces of the Pants repository:                        *)
(*   - backend/kotlin/goals/tailor.py: the find_putative_targets rule,     *)
(*   - backend/plugin_development/pants_requirements.py: determine_version *)
(*     and generate_from_pants_requirements,                               *)
(*   - rules/core/fmt_test.py: the fmt goal as exercised by FmtTest.       *)
(* Paths are sequences of one-character strings, so that splitting a path  *)
(* into directory and file name, joining them again and sorting file      *)
(* names are computed the way the code computes them.                      *)
(***************************************************************************)
EXTENDS Integers, Sequences, FiniteSets, TLC

VARIABLES
    tree,                \* the files of the repository (the engine's view)
    pc,                  \* scan -> "idle" | "awaiting" | "returned" | "raised"
    req,                 \* scan -> the PutativeKotlinTargetsRequest it was given
    all_owned_sources,   \* scan -> the AllOwnedSources it was given
    given,               \* scan -> the inputs as they were at the call (history)
    get_outcome,         \* scan -> what its Get(Paths, PathGlobs) came back with
    all_kotlin_files,    \* scan -> the Paths.files it read from the Get
    classified_unowned_kotlin_files,  \* scan -> the classification it built
    putative_targets,    \* scan -> the PutativeTargets it returned
    error,               \* scan -> the exception it ended in, or None
    gets,                \* scan -> number of Get requests it issued
    first,               \* scan -> its previous completed run, or None
    PANTS_SEMVER,        \* pants.version.PANTS_SEMVER of the running Pants
    testutil,            \* raw value of the generator's `testutil` field
    gen_pc,              \* "ready" | "generated"
    generated,           \* the GeneratedTargets' list of python_requirement targets
    fmt_pc,              \* position of the fmt goal rule
    fmt_targets,         \* HydratedTargetsWithOrigins handed to fmt
    fmt_formatters,      \* union_rules[LanguageFormatters], in registration order
    fmt_results,         \* the FmtResults collected from the formatter Gets
    console,             \* lines printed to the console's stdout
    workspace_written,   \* whether the workspace was materialized
    exit_code            \* Fmt.exit_code, or None while running

tailorVars == <<tree, pc, req, all_owned_sources, given, get_outcome,
                all_kotlin_files, classified_unowned_kotlin_files,
                putative_targets, error, gets, first>>
reqVars == <<PANTS_SEMVER, testutil, gen_pc, generated>>
fmtVars == <<fmt_pc, fmt_targets, fmt_formatters, fmt_results, console,
             workspace_written, exit_code>>
vars == <<tailorVars, reqVars, fmtVars>>

None == "None"

-----------------------------------------------------------------------------
(* Bounds of the model.                                                    *)

\* most files of the repository tree
MaxFiles == 3
\* most paths in an AllOwnedSources
MaxOwned == 2
\* scans the engine runs interleaved
NumScans == 2
\* largest minor version of a running Pants (candidates go one further)
MaxMinor == 1
\* largest micro version
MaxMicro == 1
\* largest number of a pre-release or dev segment
MaxNum == 1
\* most targets handed to the fmt goal
MaxTargets == 2

-----------------------------------------------------------------------------
(* Strings.                                                                *)

\* The characters used in paths, in code-point order.
Alphabet == <<".", "/", "B", "F", "a", "b", "k", "t">>

Ord(c) == CHOOSE i \in 1..Len(Alphabet) : Alphabet[i] = c

\* Python's str.__lt__: lexicographic by code point, a proper prefix first.
RECURSIVE StrLess(_, _)
StrLess(x, y) ==
    IF y = <<>> THEN FALSE
    ELSE IF x = <<>> THEN TRUE
    ELSE IF Head(x) # Head(y) THEN Ord(Head(x)) < Ord(Head(y))
    ELSE StrLess(Tail(x), Tail(y))

\* The builtin sorted() applied to a set of strings.
RECURSIVE sorted(_)
sorted(S) ==
    IF S = {} THEN <<>>
    ELSE LET m == CHOOSE x \in S : \A y \in S \ {x} : StrLess(x, y)
         IN  <<m>> \o sorted(S \ {m})

EndsWith(s, suffix) ==
    /\ Len(s) >= Len(suffix)
    /\ SubSeq(s, Len(s) - Len(suffix) + 1, Len(s)) = suffix

StartsWith(s, prefix) ==
    /\ Len(s) >= Len(prefix)
    /\ SubSeq(s, 1, Len(prefix)) = prefix

\* str.rfind("/") + 1: the position of the last slash, 0 when there is none.
LastSlash(p) ==
    LET I == {i \in 1..Len(p) : p[i] = "/"}
    IN  IF I = {} THEN 0 ELSE CHOOSE i \in I : \A j \in I : j <= i

RECURSIVE RStripSlash(_)
RStripSlash(s) ==
    IF s # <<>> /\ s[Len(s)] = "/" THEN RStripSlash(SubSeq(s, 1, Len(s) - 1))
    ELSE s

\* os.path.split: <<head, tail>>; the head loses its trailing slashes unless
\* it consists of slashes only.
Split(p) ==
    LET i == LastSlash(p)
        head == SubSeq(p, 1, i)
        tail == SubSeq(p, i + 1, Len(p))
    IN  <<IF RStripSlash(head) # <<>> THEN RStripSlash(head) ELSE head, tail>>

-----------------------------------------------------------------------------
(* The repository tree.                                                    *)

\* F.kt, B.kt, a/F.kt, a/B.kt, a/Fa.kt, b/F.kt, a/b/F.kt and a/kt (no .kt file)
PathPool ==
    { <<"F", ".", "k", "t">>,
      <<"B", ".", "k", "t">>,
      <<"a", "/", "F", ".", "k", "t">>,
      <<"a", "/", "B", ".", "k", "t">>,
      <<"a", "/", "F", "a", ".", "k", "t">>,
      <<"b", "/", "F", ".", "k", "t">>,
      <<"a", "/", "b", "/", "F", ".", "k", "t">>,
      <<"a", "/", "k", "t">> }

\* The tree of the interleaved-scans specification.
ConcPool ==
    { <<"a", "/", "F", ".", "k", "t">>,
      <<"a", "/", "B", ".", "k", "t">> }

SubsetsUpTo(S, n) == {T \in SUBSET S : Cardinality(T) <= n}

\* The search paths a request may name: the root (""), or one or two
\* directories of the tree.
SearchPathChoices(files) ==
    LET Dirs == {Split(p)[1] : p \in files} \ {<<>>}
    IN  {{<<>>}} \cup (SubsetsUpTo(Dirs, 2) \ {{}})

-----------------------------------------------------------------------------
(* The engine: path globs and their resolution.                            *)

\* PutativeTargetsSearchPaths.path_globs(filename_glob): one glob
\* <dir>/**/<filename_glob> per search directory.
path_globs(search_paths, filename_glob) ==
    {[dir |-> d, filename_glob |-> filename_glob] : d \in search_paths}

\* filename_glob is "*" followed by a literal suffix.
GlobMatches(glob, p) ==
    /\ \/ glob.dir = <<>>
       \/ StartsWith(p, glob.dir \o <<"/">>)
    /\ EndsWith(Split(p)[2], Tail(glob.filename_glob))

\* Get(Paths, PathGlobs, globs), when it succeeds.
ResolvePaths(files, globs) ==
    {p \in files : \E g \in globs : GlobMatches(g, p)}

\* The errors the path resolution may fail with.
ResolutionErrors == {"IOError", "PermissionError"}

-----------------------------------------------------------------------------
(* backend/kotlin/goals/tailor.py                                          *)

KotlinSourcesGeneratorTarget == "KotlinSourcesGeneratorTarget"

\* A classifier that loses one of the paths it is given.
classify_drops_a_path(paths) ==
    [t \in {KotlinSourcesGeneratorTarget} |->
        IF paths = {} THEN {} ELSE paths \ {CHOOSE p \in paths : TRUE}]

\* A classifier that keeps only the files of the repository root.
classify_root_only(paths) ==
    [t \in {KotlinSourcesGeneratorTarget} |-> {p \in paths : LastSlash(p) = 0}]

\* classify_source_files: a dict of target type -> files of that type.
classify_source_files(paths) ==
    [t \in {KotlinSourcesGeneratorTarget} |-> paths]

\* The difference forgotten: every resolved file counts as unowned.
UnownedIgnoresOwned(files, owned) == files

\* set(all_kotlin_files.files) - set(all_owned_sources)
UnownedKotlinFiles(files, owned) == files \ owned

\* group_by_dir: a dict of directory -> the names of the files in it.
group_by_dir(paths) ==
    [d \in {Split(p)[1] : p \in paths} |->
        {Split(p)[2] : p \in {q \in paths : Split(q)[1] = d}}]

\* The file names in descending order.
RECURSIVE sorted_descending(_)
sorted_descending(S) ==
    IF S = {} THEN <<>>
    ELSE LET m == CHOOSE x \in S : \A y \in S \ {x} : StrLess(y, x)
         IN  <<m>> \o sorted_descending(S \ {m})

\* The file names passed on without sorting them ascending.
TriggeringSourcesUnsorted(filenames) == sorted_descending(filenames)

\* triggering_sources=sorted(filenames)
TriggeringSources(filenames) == sorted(filenames)

\* PutativeTarget.for_target_type(tgt_type, path=, name=, triggering_sources=),
\* recorded with the arguments of the call.
for_target_type(tgt_type, path, name, triggering_sources) ==
    [type |-> tgt_type, path |-> path, name |-> name,
     triggering_sources |-> triggering_sources]

\* The sequences that list every element of S once.
Orderings(S) ==
    {f \in [1..Cardinality(S) -> S] : \A i, j \in 1..Cardinality(S) : f[i] = f[j] => i = j}

\* The orders in which the two loops may meet the items: the types in the
\* order of the classification's keys, the directories of a type in the order
\* group_by_dir met them while iterating over a set (any order).
IterationOrders(classified) ==
    LET Types == DOMAIN classified
        DirOrders == UNION {Orderings(DOMAIN group_by_dir(classified[t])) : t \in Types}
    IN  {it \in [types : Orderings(Types), dirs : [Types -> DirOrders]] :
            \A t \in Types : it.dirs[t] \in Orderings(DOMAIN group_by_dir(classified[t]))}

\* The inner loop with every target placed at the repository root.
TargetsOfTypeAtRoot(tgt_type, paths, dirs) ==
    [i \in 1..Len(dirs) |->
        for_target_type(tgt_type, <<>>, None,
                        TriggeringSources(group_by_dir(paths)[dirs[i]]))]

\* The inner loop: one PutativeTarget per directory of the type's paths.
TargetsOfType(tgt_type, paths, dirs) ==
    [i \in 1..Len(dirs) |->
        for_target_type(tgt_type, dirs[i], None,
                        TriggeringSources(group_by_dir(paths)[dirs[i]]))]

\* The outer loop, from the k-th type on.
RECURSIVE AppendTargets(_, _, _)
AppendTargets(classified, it, k) ==
    IF k > Len(it.types) THEN <<>>
    ELSE TargetsOfType(it.types[k], classified[it.types[k]], it.dirs[it.types[k]])
            \o AppendTargets(classified, it, k + 1)

\* Lines 46-55: the putative targets built from a classification.
EmitTargets(classified, it) == AppendTargets(classified, it, 1)

\* One list shared by all scans: a scan appends to what the others returned.
RECURSIVE ConcatReturned(_)
ConcatReturned(S) ==
    IF S = {} THEN <<>>
    ELSE LET o == CHOOSE x \in S : TRUE
         IN  putative_targets[o] \o ConcatReturned(S \ {o})

SharedPutativeTargets(s) == ConcatReturned(DOMAIN pc \ {s})

\* putative_targets = []: the list a scan appends to is its own and starts empty.
NewPutativeTargets(s) == <<>>

\* Lines 44-55 after the classification: the rule returns the targets built
\* from it.
Synthesize(s, classified, it) ==
    [pc |-> "returned", error |-> None,
     targets |-> NewPutativeTargets(s) \o EmitTargets(classified, it)]

\* The classification of a scan that has not classified yet.
NoClassification == [t \in {} |-> {}]

\* The exception swallowed: the rule returns an empty PutativeTargets.
AwaitSwallowed(e) == [pc |-> "returned", error |-> None, retry |-> FALSE]

\* What the rule ends in when its Get raises: the exception, unchanged.
AwaitRaised(e) == [pc |-> "raised", error |-> e, retry |-> FALSE]

\* No previous run; no answer from the Get yet.
NoRun == [valid |-> FALSE, files |-> {}, owned |-> {}, targets |-> <<>>]
NoOutcome == [kind |-> "pending", files |-> {}, error |-> None]

\* The engine calls the rule: lines 41-42 up to the await.
Invoke(s, r, owned) ==
    /\ pc' = [pc EXCEPT ![s] = "awaiting"]
    /\ req' = [req EXCEPT ![s] = r]
    /\ all_owned_sources' = [all_owned_sources EXCEPT ![s] = owned]
    /\ given' = [given EXCEPT ![s] = [req |-> r, owned |-> owned]]
    /\ get_outcome' = [get_outcome EXCEPT ![s] = NoOutcome]
    /\ all_kotlin_files' = [all_kotlin_files EXCEPT ![s] = {}]
    /\ classified_unowned_kotlin_files' =
            [classified_unowned_kotlin_files EXCEPT ![s] = NoClassification]
    /\ putative_targets' = [putative_targets EXCEPT ![s] = <<>>]
    /\ error' = [error EXCEPT ![s] = None]
    /\ gets' = [gets EXCEPT ![s] = 1]

Call(s) ==
    /\ pc[s] = "idle"
    /\ \E r \in [search_paths : SearchPathChoices(tree)],
          owned \in SubsetsUpTo(tree, MaxOwned) :
            Invoke(s, r, owned)
    /\ UNCHANGED <<tree, first, reqVars, fmtVars>>

\* The Get returns Paths: lines 42-55 run to the return without suspending.
Resume(s) ==
    /\ pc[s] = "awaiting"
    /\ LET globs == path_globs(req[s].search_paths, <<"*", ".", "k", "t">>)
           files == ResolvePaths(tree, globs)
           unowned_kotlin_files == UnownedKotlinFiles(files, all_owned_sources[s])
           classified == classify_source_files(unowned_kotlin_files)
       IN  /\ get_outcome' = [get_outcome EXCEPT ![s] =
                                [kind |-> "paths", files |-> files, error |-> None]]
           /\ all_kotlin_files' = [all_kotlin_files EXCEPT ![s] = files]
           /\ classified_unowned_kotlin_files' =
                [classified_unowned_kotlin_files EXCEPT ![s] = classified]
           /\ \E it \in IterationOrders(classified) :
                LET out == Synthesize(s, classified, it)
                IN  /\ putative_targets' = [putative_targets EXCEPT ![s] = out.targets]
                    /\ pc' = [pc EXCEPT ![s] = out.pc]
                    /\ error' = [error EXCEPT ![s] = out.error]
    /\ UNCHANGED <<tree, req, all_owned_sources, given, gets, first, reqVars, fmtVars>>

\* The Get raises: the exception leaves the rule at the await.
ResolveFails(s) ==
    /\ pc[s] = "awaiting"
    /\ \E e \in ResolutionErrors :
        LET out == AwaitRaised(e)
        IN  /\ get_outcome' = [get_outcome EXCEPT ![s] =
                                 [kind |-> "raised", files |-> {}, error |-> e]]
            /\ pc' = [pc EXCEPT ![s] = IF out.retry THEN "awaiting" ELSE out.pc]
            /\ error' = [error EXCEPT ![s] = out.error]
            /\ gets' = [gets EXCEPT ![s] = IF out.retry THEN @ + 1 ELSE @]
    /\ UNCHANGED <<tree, req, all_owned_sources, given, all_kotlin_files,
                   classified_unowned_kotlin_files, putative_targets, first,
                   reqVars, fmtVars>>

\* os.path.join(d, f) for a relative file name f.
JoinPath(d, f) ==
    IF d = <<>> THEN f
    ELSE IF d[Len(d)] = "/" THEN d \o f
    ELSE d \o <<"/">> \o f

\* The paths a sequence of putative targets proposes.
TriggerPaths(targets) ==
    {JoinPath(targets[i].path, targets[i].triggering_sources[j]) :
        <<i, j>> \in {<<i, j>> \in (DOMAIN targets) \X (1..8) :
                        j <= Len(targets[i].triggering_sources)}}

\* The tailor goal has added the proposed targets, which now own their
\* triggering sources, and the engine runs the same request a second time.
Rescan(s) ==
    /\ pc[s] = "returned"
    /\ ~first[s].valid
    /\ first' = [first EXCEPT ![s] =
                    [valid |-> TRUE, files |-> all_kotlin_files[s],
                     owned |-> all_owned_sources[s], targets |-> putative_targets[s]]]
    /\ Invoke(s, req[s], all_owned_sources[s] \cup TriggerPaths(putative_targets[s]))
    /\ UNCHANGED <<tree, reqVars, fmtVars>>

TailorIdle(Scans) ==
    /\ pc = [s \in Scans |-> "idle"]
    /\ req = [s \in Scans |-> [search_paths |-> {}]]
    /\ all_owned_sources = [s \in Scans |-> {}]
    /\ given = [s \in Scans |-> [req |-> [search_paths |-> {}], owned |-> {}]]
    /\ get_outcome = [s \in Scans |-> NoOutcome]
    /\ all_kotlin_files = [s \in Scans |-> {}]
    /\ classified_unowned_kotlin_files = [s \in Scans |-> NoClassification]
    /\ putative_targets = [s \in Scans |-> <<>>]
    /\ error = [s \in Scans |-> None]
    /\ gets = [s \in Scans |-> 0]
    /\ first = [s \in Scans |-> NoRun]

ReqIdle ==
    /\ PANTS_SEMVER = None
    /\ testutil = None
    /\ gen_pc = "off"
    /\ generated = <<>>

FmtIdle ==
    /\ fmt_pc = "off"
    /\ fmt_targets = <<>>
    /\ fmt_formatters = <<>>
    /\ fmt_results = <<>>
    /\ console = <<>>
    /\ workspace_written = FALSE
    /\ exit_code = None

\* One scan at a time over a tree drawn from PathPool.
Init ==
    /\ tree \in SubsetsUpTo(PathPool, MaxFiles)
    /\ TailorIdle({1})
    /\ ReqIdle
    /\ FmtIdle

Calls == \E s \in DOMAIN pc : Call(s)
Resumes == \E s \in DOMAIN pc : Resume(s)
Failures == \E s \in DOMAIN pc : ResolveFails(s)
Rescans == \E s \in DOMAIN pc : Rescan(s)

Next ==
    \/ Calls
    \/ Resumes
    \/ Failures
    \/ Rescans

Spec == Init /\ [][Next]_vars

\* NumScans scans, each called once, interleaved over a tree drawn from
\* ConcPool.
InitConc ==
    /\ tree \in SUBSET ConcPool
    /\ TailorIdle(1..NumScans)
    /\ ReqIdle
    /\ FmtIdle

NextConc ==
    \/ Calls
    \/ Resumes
    \/ Failures

SpecConc == InitConc /\ [][NextConc]_vars

-----------------------------------------------------------------------------
(* Claims about find_putative_targets.                                     *)

Dirname(p) == Split(p)[1]
Basename(p) == Split(p)[2]

Unowned(s) == all_kotlin_files[s] \ all_owned_sources[s]

\* The (declaration, trigger) positions of a sequence of putative targets.
Triggers(targets) ==
    {x \in (DOMAIN targets) \X (1..8) : x[2] <= Len(targets[x[1]].triggering_sources)}

\* C1: the returned declarations exactly cover All - O: every unowned path p
\* (one at the root included) is the trigger basename(p) of exactly one
\* declaration, whose path is dirname(p), and every (path, trigger) pair of
\* the output joins to a member of All - O.
C1_ExactCover ==
    \A s \in DOMAIN pc :
        pc[s] = "returned" =>
            LET D == putative_targets[s]
            IN  /\ \A p \in Unowned(s) :
                    Cardinality({x \in Triggers(D) :
                        /\ D[x[1]].triggering_sources[x[2]] = Basename(p)
                        /\ D[x[1]].path = Dirname(p)}) = 1
                /\ \A x \in Triggers(D) :
                    JoinPath(D[x[1]].path, D[x[1]].triggering_sources[x[2]])
                        \in Unowned(s)

\* A scan returned with an unowned file at the root, an unowned file in a
\* directory, and a resolved file that was owned.
C1_Witness ==
    \E s \in DOMAIN pc :
        /\ pc[s] = "returned"
        /\ <<"F", ".", "k", "t">> \in Unowned(s)
        /\ \E p \in Unowned(s) : Dirname(p) # <<>>
        /\ all_kotlin_files[s] \cap all_owned_sources[s] # {}

\* C2: no owned file is ever proposed, and nothing is returned when every
\* resolved file is owned (in particular when no file was resolved).
C2_NoOwnedProposed ==
    \A s \in DOMAIN pc :
        pc[s] = "returned" =>
            /\ TriggerPaths(putative_targets[s]) \cap all_owned_sources[s] = {}
            /\ all_kotlin_files[s] \subseteq all_owned_sources[s]
                    => putative_targets[s] = <<>>

\* A scan returned whose resolved files, two of them, were all owned.
C2_Witness ==
    \E s \in DOMAIN pc :
        /\ pc[s] = "returned"
        /\ Cardinality(all_kotlin_files[s]) = 2
        /\ all_kotlin_files[s] \subseteq all_owned_sources[s]
        /\ putative_targets[s] = <<>>

\* C3: one declaration per (type, directory) with an unowned file: no two
\* declarations share type and directory, no trigger list is empty, every
\* name is None, and every trigger list is strictly ascending.
C3_OnePerDirectorySorted ==
    \A s \in DOMAIN pc :
        pc[s] = "returned" =>
            LET D == putative_targets[s]
            IN  /\ \A i, j \in DOMAIN D :
                    (D[i].type = D[j].type /\ D[i].path = D[j].path) => i = j
                /\ {D[i].path : i \in DOMAIN D} = {Dirname(p) : p \in Unowned(s)}
                /\ \A i \in DOMAIN D :
                    /\ D[i].type = KotlinSourcesGeneratorTarget
                    /\ D[i].triggering_sources # <<>>
                    /\ D[i].name = None
                    /\ \A k \in 1..(Len(D[i].triggering_sources) - 1) :
                        StrLess(D[i].triggering_sources[k],
                                D[i].triggering_sources[k + 1])

\* A scan returned two declarations, one of them with several triggers.
C3_Witness ==
    \E s \in DOMAIN pc :
        /\ pc[s] = "returned"
        /\ Len(putative_targets[s]) >= 2
        /\ \E i \in DOMAIN putative_targets[s] :
            Len(putative_targets[s][i].triggering_sources) >= 2

\* C4: a second scan over the same files, with the first scan's proposed
\* files added to the owned set, proposes none of those files and returns
\* the empty sequence.
C4_IdempotentExclusion ==
    \A s \in DOMAIN pc :
        ( /\ pc[s] = "returned"
          /\ first[s].valid
          /\ all_kotlin_files[s] = first[s].files
          /\ all_owned_sources[s] = first[s].owned \cup TriggerPaths(first[s].targets) )
        => /\ TriggerPaths(putative_targets[s]) \cap TriggerPaths(first[s].targets) = {}
           /\ putative_targets[s] = <<>>

\* A second scan returned after a first scan that proposed files in two
\* directories.
C4_Witness ==
    \E s \in DOMAIN pc :
        /\ pc[s] = "returned"
        /\ first[s].valid
        /\ Len(first[s].targets) >= 2
        /\ all_kotlin_files[s] = first[s].files
        /\ all_owned_sources[s] = first[s].owned \cup TriggerPaths(first[s].targets)

\* C5: a scan whose path resolution failed ends in that failure, having
\* issued one request and returned nothing; a scan that returned did so
\* after one successful request and with declarations for every unowned
\* file; otherwise nothing is returned.
C5_FailurePropagates ==
    \A s \in DOMAIN pc :
        /\ get_outcome[s].kind = "raised" =>
            /\ pc[s] = "raised"
            /\ error[s] = get_outcome[s].error
            /\ putative_targets[s] = <<>>
        /\ pc[s] = "returned" =>
            /\ get_outcome[s].kind = "paths"
            /\ error[s] = None
            /\ TriggerPaths(putative_targets[s]) = Unowned(s)
        /\ pc[s] # "returned" => putative_targets[s] = <<>>
        /\ pc[s] # "idle" => gets[s] = 1

\* A scan ended in the PermissionError its path resolution failed with.
C5_Witness ==
    \E s \in DOMAIN pc :
        /\ pc[s] = "raised"
        /\ get_outcome[s].error = "PermissionError"
        /\ error[s] = "PermissionError"

\* What a scan returns when it runs alone on the given files and owned set.
AloneResults(files, owned) ==
    LET classified == classify_source_files(UnownedKotlinFiles(files, owned))
    IN  {EmitTargets(classified, it) : it \in IterationOrders(classified)}

ScanState(s) ==
    <<pc[s], req[s], all_owned_sources[s], given[s], get_outcome[s],
      all_kotlin_files[s], classified_unowned_kotlin_files[s],
      putative_targets[s], error[s], gets[s], first[s]>>

\* C6: with scans interleaved, a scan that returns does so with what it
\* would return alone on the inputs it was given, which it leaves as given;
\* and a step of one scan changes neither the tree nor another scan's state
\* (so what a scan returned stays what it returned).
C6_ScansIndependent ==
    [][ \A s \in DOMAIN pc :
          /\ (pc[s] # "returned" /\ pc'[s] = "returned") =>
                /\ all_owned_sources'[s] = given'[s].owned
                /\ req'[s] = given'[s].req
                /\ all_kotlin_files'[s] =
                        ResolvePaths(tree, path_globs(given'[s].req.search_paths,
                                                      <<"*", ".", "k", "t">>))
                /\ putative_targets'[s] \in
                        AloneResults(all_kotlin_files'[s], given'[s].owned)
          /\ ScanState(s)' # ScanState(s) =>
                /\ tree' = tree
                /\ \A o \in DOMAIN pc \ {s} : ScanState(o)' = ScanState(o)
      ]_vars

\* Two scans have returned, with different declarations.
C6_Witness ==
    /\ Cardinality(DOMAIN pc) >= 2
    /\ \E s, o \in DOMAIN pc :
        /\ pc[s] = "returned"
        /\ pc[o] = "returned"
        /\ putative_targets[s] # <<>>
        /\ putative_targets[o] # <<>>
        /\ putative_targets[s] # putative_targets[o]

\* The union of a classification's value sets.
ValueUnion(classified) == UNION {classified[t] : t \in DOMAIN classified}

\* The classifications of U that lose a path or add an owned one.
FaultyClassifications(U, owned) ==
    {[t \in {KotlinSourcesGeneratorTarget} |-> U \ {p}] : p \in U}
        \cup {[t \in {KotlinSourcesGeneratorTarget} |-> U \cup {p}] : p \in owned \ U}

-----------------------------------------------------------------------------
(* Versions and version specifiers (PEP 440).                              *)
(* A version is [release, pre, dev]: release a sequence of numbers, pre    *)
(* <<>> or <<kind, number>>, dev <<>> or <<number>>.                       *)

Majors == {1, 2}
PreKinds == {"a", "rc"}

VersionsUpTo(maxMinor) ==
    [release : {<<M, N, P>> : M \in Majors, N \in 0..maxMinor, P \in 0..MaxMicro},
     pre : {<<>>} \cup {<<k, n>> : k \in PreKinds, n \in 0..MaxNum},
     dev : {<<>>} \cup {<<n>> : n \in 0..MaxNum}]

\* The versions a running Pants may have, and the releases a resolver may
\* be offered.
RunningVersions == VersionsUpTo(MaxMinor)
CandidateVersions == VersionsUpTo(MaxMinor + 1)

is_devrelease(v) == v.dev # <<>>
is_prerelease(v) == v.dev # <<>> \/ v.pre # <<>>
major(v) == IF Len(v.release) >= 1 THEN v.release[1] ELSE 0
minor(v) == IF Len(v.release) >= 2 THEN v.release[2] ELSE 0

\* The i-th release number, missing ones read as zero.
ReleaseAt(v, i) == IF i <= Len(v.release) THEN v.release[i] ELSE 0

\* The sort key of a version after its release: a version with only a dev
\* segment sorts before every pre-release, a version without a pre-release
\* after them; a version without a dev segment sorts after its dev releases.
KindRank(k) == CASE k = "a" -> 1 [] k = "b" -> 2 [] k = "rc" -> 3
SuffixKey(v) ==
    (IF v.pre # <<>> THEN <<1, KindRank(v.pre[1]), v.pre[2]>>
     ELSE IF v.dev # <<>> THEN <<0, 0, 0>>
     ELSE <<2, 0, 0>>)
    \o (IF v.dev # <<>> THEN <<0, v.dev[1]>> ELSE <<1, 0>>)

VersionKey(v) == <<ReleaseAt(v, 1), ReleaseAt(v, 2), ReleaseAt(v, 3)>> \o SuffixKey(v)

RECURSIVE KeyLess(_, _)
KeyLess(x, y) ==
    IF x = <<>> \/ y = <<>> THEN FALSE
    ELSE IF Head(x) # Head(y) THEN Head(x) < Head(y)
    ELSE KeyLess(Tail(x), Tail(y))

VersionLess(a, b) == KeyLess(VersionKey(a), VersionKey(b))
VersionEq(a, b) == VersionKey(a) = VersionKey(b)
BaseVersionEq(a, b) == \A i \in 1..3 : ReleaseAt(a, i) = ReleaseAt(b, i)

\* Whether a candidate matches one clause of a specifier.
ClauseContains(clause, c) ==
    CASE clause.op = "==" -> VersionEq(c, clause.version)
      [] clause.op = ">=" -> ~VersionLess(c, clause.version)
      [] clause.op = "<" ->
            /\ VersionLess(c, clause.version)
            /\ ~( /\ ~is_prerelease(clause.version)
                  /\ is_prerelease(c)
                  /\ BaseVersionEq(c, clause.version) )

\* A specifier admits pre-releases when one of its clauses names one.
AllowsPrereleases(specifier) ==
    \E i \in DOMAIN specifier :
        /\ specifier[i].op \in {"==", ">="}
        /\ is_prerelease(specifier[i].version)

\* Whether a candidate satisfies a specifier (a sequence of clauses).
Satisfies(c, specifier) ==
    /\ is_prerelease(c) => AllowsPrereleases(specifier)
    /\ \A i \in DOMAIN specifier : ClauseContains(specifier[i], c)

-----------------------------------------------------------------------------
(* backend/plugin_development/pants_requirements.py                        *)

\* The lower bound the help text shows: the first release candidate.
determine_version_from_rc0(semver) ==
    IF is_devrelease(semver)
    THEN <<[op |-> "==", version |-> semver]>>
    ELSE <<[op |-> ">=",
            version |-> [release |-> <<major(semver), minor(semver), 0>>,
                         pre |-> <<"rc", 0>>, dev |-> <<>>]],
           [op |-> "<",
            version |-> [release |-> <<major(semver), minor(semver) + 1>>,
                         pre |-> <<>>, dev |-> <<>>]]>>

\* determine_version: "=={PANTS_SEMVER}" for a dev release, otherwise
\* ">={major}.{minor}.0a0,<{major}.{minor + 1}".
determine_version(semver) ==
    IF is_devrelease(semver)
    THEN <<[op |-> "==", version |-> semver]>>
    ELSE <<[op |-> ">=",
            version |-> [release |-> <<major(semver), minor(semver), 0>>,
                         pre |-> <<"a", 0>>, dev |-> <<>>]],
           [op |-> "<",
            version |-> [release |-> <<major(semver), minor(semver) + 1>>,
                         pre |-> <<>>, dev |-> <<>>]]>>

\* A testutil field that is off unless the BUILD file turns it on.
DefaultFalse == FALSE

\* PantsRequirementsTestutilField.default
PantsRequirementsTestutilField_default == TRUE

\* BoolField.value: the default when the BUILD file does not set the field.
FieldValue(raw) ==
    IF raw = None THEN PantsRequirementsTestutilField_default ELSE raw = "True"

\* create_tgt: a python_requirement target named after the distribution.
create_tgt(dist, module, version) ==
    [generated_name |-> dist,
     requirements |-> <<[dist |-> dist, specifier |-> version]>>,
     modules |-> <<module>>]

\* generate_from_pants_requirements
generate_from_pants_requirements(testutil_raw, semver) ==
    LET version == determine_version(semver)
        result == <<create_tgt("pantsbuild.pants", "pants", version)>>
    IN  IF FieldValue(testutil_raw)
        THEN Append(result, create_tgt("pantsbuild.pants.testutil", "pants.testutil", version))
        ELSE result

Generate ==
    /\ gen_pc = "ready"
    /\ generated' = generate_from_pants_requirements(testutil, PANTS_SEMVER)
    /\ gen_pc' = "generated"
    /\ UNCHANGED <<PANTS_SEMVER, testutil, tailorVars, fmtVars>>

InitReq ==
    /\ PANTS_SEMVER \in RunningVersions
    /\ testutil \in {None, "True", "False"}
    /\ gen_pc = "ready"
    /\ generated = <<>>
    /\ tree = {}
    /\ TailorIdle({})
    /\ FmtIdle

NextReq == Generate

SpecReq == InitReq /\ [][NextReq]_vars

-----------------------------------------------------------------------------
(* Claims about the generated requirements.                                *)

\* The specifier of the i-th generated target.
SpecifierOf(i) == generated[i].requirements[1].specifier

SameSeries(c, v) == major(c) = major(v) /\ minor(c) = minor(v)

\* The dev releases of the first release of a series and of its first alpha:
\* those that sort before <major>.<minor>.0a0.
BeforeFirstAlpha(c) ==
    /\ is_devrelease(c)
    /\ ReleaseAt(c, 3) = 0
    /\ c.pre \in {<<>>, <<"a", 0>>}

C8_GeneratedTargets ==
    gen_pc = "generated" =>
        /\ Len(generated) = (IF testutil \in {None, "True"} THEN 2 ELSE 1)
        /\ generated[1].generated_name = "pantsbuild.pants"
        /\ generated[1].requirements[1].dist = "pantsbuild.pants"
        /\ generated[1].modules = <<"pants">>
        /\ Len(generated) = 2 =>
            /\ generated[2].generated_name = "pantsbuild.pants.testutil"
            /\ generated[2].requirements[1].dist = "pantsbuild.pants.testutil"
            /\ generated[2].modules = <<"pants.testutil">>
        /\ \A i, j \in DOMAIN generated : SpecifierOf(i) = SpecifierOf(j)
        /\ \A i \in DOMAIN generated : Len(generated[i].requirements) = 1

\* Targets were generated with the testutil field left unset.
C8_Witness ==
    /\ gen_pc = "generated"
    /\ testutil = None
    /\ Len(generated) = 2

-----------------------------------------------------------------------------
(* rules/core/fmt_test.py: the mock formatters and the fmt goal rule.      *)

AdaptorTypes == {"PythonTargetAdaptor", "JvmBinaryAdaptor", "TargetAdaptor"}
FormatterClasses == {"PythonFormatters", "JavaFormatters", "InvalidFormatters"}

\* A formatter that takes every target for its own.
belongs_to_any_language(formatters_cls, adaptor_with_origin) == TRUE

\* <Formatters>.belongs_to_language: an isinstance test on the adaptor.
belongs_to_language(formatters_cls, adaptor_with_origin) ==
    CASE formatters_cls = "PythonFormatters" ->
            adaptor_with_origin.adaptor_type = "PythonTargetAdaptor"
      [] formatters_cls = "JavaFormatters" ->
            adaptor_with_origin.adaptor_type = "JvmBinaryAdaptor"
      [] formatters_cls = "InvalidFormatters" -> FALSE

\* <Formatters>.stdout(address): the line the mock formatter reports.
stdout(formatters_cls, address) ==
    CASE formatters_cls = "PythonFormatters" ->
            [text |-> "Python formatters: formatted", address |-> address]
      [] formatters_cls = "JavaFormatters" ->
            [text |-> "Java formatters: formatted", address |-> address]
      [] formatters_cls = "InvalidFormatters" ->
            [text |-> "Invalid formatters: should not have formatted", address |-> address]

\* MockLanguageFormatters.language_fmt_results: one FmtResult, for the first
\* of the instance's adaptors.
language_fmt_results(formatters_cls, adaptors_with_origins) ==
    <<[stdout |-> stdout(formatters_cls, adaptors_with_origins[1].address),
       stderr |-> ""]>>

\* FmtTest.make_hydrated_target_with_origin
make_hydrated_target_with_origin(name, adaptor_type, include_sources) ==
    [address |-> [spec_path |-> "", target_name |-> name],
     adaptor_type |-> adaptor_type,
     files |-> IF include_sources THEN <<"f1">> ELSE <<>>]

\* TargetAdaptor.has_sources
has_sources(target) == target.files # <<>>

TargetName(i) == <<"t", i>>

\* The target lists of up to n targets, the i-th named t<i>.
TargetLists(n) ==
    UNION {
        {[i \in 1..k |-> make_hydrated_target_with_origin(TargetName(i), f[i][1], f[i][2])] :
            f \in [1..k -> AdaptorTypes \X BOOLEAN]} :
        k \in 0..n}

\* The registered formatters: distinct classes in registration order.
FormatterLists == UNION {Orderings(S) : S \in SUBSET FormatterClasses}

RECURSIVE Flatten(_)
Flatten(seqs) == IF seqs = <<>> THEN <<>> ELSE Head(seqs) \o Flatten(Tail(seqs))

\* The formatter instances the rule requests results for: one per target
\* with sources and formatter class that takes it. The tests fix the order
\* only where target-major and formatter-major order agree; either may be
\* the rule's.
FormatterRequests(targets, formatters, target_major) ==
    LET Takes(i, k) == /\ has_sources(targets[i])
                       /\ belongs_to_language(formatters[k], targets[i])
        One(i, k) == IF Takes(i, k)
                     THEN <<[cls |-> formatters[k], adaptors |-> <<targets[i]>>]>>
                     ELSE <<>>
    IN  IF target_major
        THEN Flatten([i \in DOMAIN targets |->
                        Flatten([k \in DOMAIN formatters |-> One(i, k)])])
        ELSE Flatten([k \in DOMAIN formatters |->
                        Flatten([i \in DOMAIN targets |-> One(i, k)])])

\* The rule runs up to its MultiGet for the formatters' results, which the
\* mock answers with each instance's language_fmt_results.
FmtCollect ==
    /\ fmt_pc = "start"
    /\ \E target_major \in BOOLEAN :
        LET requests == FormatterRequests(fmt_targets, fmt_formatters, target_major)
        IN  fmt_results' = Flatten([r \in DOMAIN requests |->
                language_fmt_results(requests[r].cls, requests[r].adaptors)])
    /\ fmt_pc' = "collected"
    /\ UNCHANGED <<fmt_targets, fmt_formatters, console, workspace_written,
                   exit_code, tailorVars, reqVars>>

\* Without results the rule returns at once.
FmtReturnEmpty ==
    /\ fmt_pc = "collected"
    /\ fmt_results = <<>>
    /\ exit_code' = 0
    /\ fmt_pc' = "done"
    /\ UNCHANGED <<fmt_targets, fmt_formatters, fmt_results, console,
                   workspace_written, tailorVars, reqVars>>

\* With results the rule merges their digests, materializes the merged
\* digest in the workspace, prints each result's stdout and returns.
FmtWriteAndPrint ==
    /\ fmt_pc = "collected"
    /\ fmt_results # <<>>
    /\ workspace_written' = TRUE
    /\ console' = console \o [r \in DOMAIN fmt_results |-> fmt_results[r].stdout]
    /\ exit_code' = 0
    /\ fmt_pc' = "done"
    /\ UNCHANGED <<fmt_targets, fmt_formatters, fmt_results, tailorVars, reqVars>>

InitFmt ==
    /\ fmt_pc = "start"
    /\ fmt_targets \in TargetLists(MaxTargets)
    /\ fmt_formatters \in FormatterLists
    /\ fmt_results = <<>>
    /\ console = <<>>
    /\ workspace_written = FALSE
    /\ exit_code = None
    /\ tree = {}
    /\ TailorIdle({})
    /\ ReqIdle

NextFmt ==
    \/ FmtCollect
    \/ FmtReturnEmpty
    \/ FmtWriteAndPrint

SpecFmt == InitFmt /\ [][NextFmt]_vars

-----------------------------------------------------------------------------
(* Claims about the fmt goal.                                              *)

\* The (target, formatter) pairs the tests expect a result for: the target
\* has a source file, and is a Python target met by PythonFormatters or a
\* JVM binary met by JavaFormatters.
ExpectedPairs ==
    {x \in (DOMAIN fmt_targets) \X (DOMAIN fmt_formatters) :
        /\ fmt_targets[x[1]].files # <<>>
        /\ \/ /\ fmt_formatters[x[2]] = "PythonFormatters"
              /\ fmt_targets[x[1]].adaptor_type = "PythonTargetAdaptor"
           \/ /\ fmt_formatters[x[2]] = "JavaFormatters"
              /\ fmt_targets[x[1]].adaptor_type = "JvmBinaryAdaptor"}

ExpectedLine(x) == stdout(fmt_formatters[x[2]], fmt_targets[x[1]].address)

=============================================================================
